---- MODULE Spec2Model ----
(***************************************************************************)
(* Model of the brainfuck toolchain of src/src/main.rs: main() runs        *)
(* tokenize, parse_root, tree_walker and interpret in sequence.  Each      *)
(* stage is one action; the fetch-execute loop of interpret is one action  *)
(* per instruction kind.  Indices (program_counter, pointer, jump targets) *)
(* are 0-based as in the source; sequences are 1-based, so instruction i   *)
(* is bytecode[i + 1].                                                     *)
(***************************************************************************)
EXTENDS Integers, Sequences, FiniteSets, TLC

VARIABLES
    content,          \* main: the program text read from the file
    tokens,           \* main: result of tokenize(content)
    parse_tree,       \* main: result of parse_root(tokens)
    bytecode,         \* main: result of tree_walker(parse_tree)
    mem,              \* interpret: the tape, as the map of its nonzero cells
    pointer,          \* interpret: cell pointer
    program_counter,  \* interpret: program counter
    input_buffer,     \* interpret: pending-input queue (VecDeque<u8>)
    stdout,           \* bytes written to standard output so far
    stdin_log,        \* lines read_line has returned so far, in order
    stage,            \* position of main
    panic,            \* panic message, "" while none
    steps,            \* number of instructions interpret has executed
    ref               \* the reference tree-walking interpreter (see RefStep)

vars == << content, tokens, parse_tree, bytecode, mem, pointer, program_counter,
           input_buffer, stdout, stdin_log, stage, panic, steps, ref >>

-----------------------------------------------------------------------------
(* Program constants *)

TapeLen == 30000
CellMod == 256
AsciiLimit == 128

(* Bounds of the model *)

MaxSrcLen == 4      \* longest source over the full alphabet
MaxLoopLen == 6     \* longest source over the loop alphabet
MaxEcho == 3        \* most repetitions of ",." in the echo family
MaxSteps == 14      \* instructions executed per run under Spec
MaxLines == 3       \* lines read from standard input per run
MaxLaps == 1        \* trips of the pointer round the tape per run under SpecRun

-----------------------------------------------------------------------------
(* Helpers on sequences *)

Rep(c, n) == [i \in 1..n |-> c]

SeqsUpTo(S, n) == UNION { [1..k -> S] : k \in 0..n }

RECURSIVE Flatten(_)
Flatten(ss) == IF ss = <<>> THEN <<>> ELSE Head(ss) \o Flatten(Tail(ss))

\* Vec::insert(index, element): shifts everything from index one place later.
Insert(s, index, e) ==
    [k \in 1..(Len(s) + 1) |->
        IF k <= index THEN s[k] ELSE IF k = index + 1 THEN e ELSE s[k - 1]]

-----------------------------------------------------------------------------
(* Lexer *)

\* Faulty variant: the two pointer moves are exchanged.
map_token_swapped(character) ==
    CASE character = "+" -> <<"Increment">>
      [] character = "-" -> <<"Decrement">>
      [] character = ">" -> <<"MoveDown">>
      [] character = "<" -> <<"MoveUp">>
      [] character = "." -> <<"Print">>
      [] character = "," -> <<"Read">>
      [] character = "[" -> <<"LoopOpen">>
      [] character = "]" -> <<"LoopClose">>
      [] OTHER -> <<>>

map_token(character) ==
    CASE character = "+" -> <<"Increment">>
      [] character = "-" -> <<"Decrement">>
      [] character = ">" -> <<"MoveUp">>
      [] character = "<" -> <<"MoveDown">>
      [] character = "." -> <<"Print">>
      [] character = "," -> <<"Read">>
      [] character = "[" -> <<"LoopOpen">>
      [] character = "]" -> <<"LoopClose">>
      [] OTHER -> <<>>

\* string.chars().map(map_token).flatten().collect()
tokenize(string) == Flatten([k \in 1..Len(string) |-> map_token(string[k])])

-----------------------------------------------------------------------------
(* Parser.  A ParseElement is [tag, body]; body is <<>> unless tag = "Block". *)

Simple(token) == [tag |-> token, body |-> <<>>]
Block(block_elements) == [tag |-> "Block", body |-> block_elements]

\* Faulty variant: the elements collected before a nested block are dropped.
RECURSIVE parse_block_forgets(_, _)
parse_block_forgets(iterator, block_elements) ==
    IF iterator = <<>>
    THEN [err |-> "missing ]", element |-> Block(<<>>), iterator |-> <<>>]
    ELSE LET token == Head(iterator) IN
         CASE token = "LoopClose" ->
                [err |-> "", element |-> Block(block_elements),
                 iterator |-> Tail(iterator)]
           [] token = "LoopOpen" ->
                LET r == parse_block_forgets(Tail(iterator), <<>>) IN
                IF r.err # "" THEN r
                ELSE parse_block_forgets(r.iterator, << r.element >>)
           [] OTHER ->
                parse_block_forgets(Tail(iterator), Append(block_elements, Simple(token)))

\* parse_block consumes the shared iterator; the result carries what is left.
RECURSIVE parse_block(_, _)
parse_block(iterator, block_elements) ==
    IF iterator = <<>>
    THEN [err |-> "missing ]", element |-> Block(<<>>), iterator |-> <<>>]
    ELSE LET token == Head(iterator) IN
         CASE token = "LoopClose" ->
                [err |-> "", element |-> Block(block_elements),
                 iterator |-> Tail(iterator)]
           [] token = "LoopOpen" ->
                LET r == parse_block(Tail(iterator), <<>>) IN
                IF r.err # "" THEN r
                ELSE parse_block(r.iterator, Append(block_elements, r.element))
           [] OTHER ->
                parse_block(Tail(iterator), Append(block_elements, Simple(token)))

RECURSIVE parse_root_loop(_, _)
parse_root_loop(iterator, parse_elements) ==
    IF iterator = <<>>
    THEN [err |-> "", elements |-> parse_elements]
    ELSE LET token == Head(iterator) IN
         CASE token = "LoopClose" -> [err |-> "unexpected ]", elements |-> <<>>]
           [] token = "LoopOpen" ->
                LET r == parse_block(Tail(iterator), <<>>) IN
                IF r.err # "" THEN [err |-> r.err, elements |-> <<>>]
                ELSE parse_root_loop(r.iterator, Append(parse_elements, r.element))
           [] OTHER ->
                parse_root_loop(Tail(iterator), Append(parse_elements, Simple(token)))

\* Faulty variant: a LoopClose with no block open is let through, nothing is parsed.
parse_root_skips_close(toks) ==
    LET r == parse_root_loop(toks, <<>>) IN
    IF r.err = "unexpected ]" THEN [err |-> "", elements |-> <<>>] ELSE r

\* Faulty variant: on an error the statements parsed before it are returned.
parse_root_partial(toks) ==
    LET ok == { k \in 0..Len(toks) : parse_root_loop(SubSeq(toks, 1, k), <<>>).err = "" }
        n == CHOOSE k \in ok : \A m \in ok : m <= k
    IN  parse_root_loop(SubSeq(toks, 1, n), <<>>)

parse_root(toks) == parse_root_loop(toks, <<>>)

-----------------------------------------------------------------------------
(* Lowering pass.  A BytecodeElement is [op, arg]; arg is 0 for Print, Read. *)

Instr(op, arg) == [op |-> op, arg |-> arg]

lower_simple(tag) ==
    CASE tag = "Increment" -> Instr("ChangeValue", 1)
      [] tag = "Decrement" -> Instr("ChangeValue", -1)
      [] tag = "MoveUp" -> Instr("MovePointer", 1)
      [] tag = "MoveDown" -> Instr("MovePointer", -1)
      [] tag = "Print" -> Instr("Print", 0)
      [] tag = "Read" -> Instr("Read", 0)

\* Faulty variants of the two target computations.
negative_target_nodepth(block_start, depth) == block_start
positive_target_nodepth(len, depth) == len
positive_target_past(len, depth) == len + depth + 1
positive_target_deeper(len, depth) == len + 2 * depth

\* bytecode.push(NegativeJump(block_start + depth))
negative_target(block_start, depth) == block_start + depth

\* PositiveJump(bytecode.len() + depth), the length taken after the push
positive_target(len, depth) == len + depth

RECURSIVE walk_subtree(_, _, _), walk_elements(_, _, _)
\* the for loop of walk_subtree over the elements of the block
walk_elements(block, code, depth) ==
    IF block = <<>> THEN code
    ELSE LET element == Head(block) IN
         walk_elements(Tail(block),
                       IF element.tag = "Block"
                       THEN walk_subtree(element.body, code, depth + 1)
                       ELSE Append(code, lower_simple(element.tag)),
                       depth)

walk_subtree(block, code, depth) ==
    LET block_start == Len(code)
        body == walk_elements(block, code, depth)
        pushed == Append(body, Instr("NegativeJump", negative_target(block_start, depth)))
    IN  Insert(pushed, block_start,
               Instr("PositiveJump", positive_target(Len(pushed), depth)))

RECURSIVE tree_walker_loop(_, _)
tree_walker_loop(tree, code) ==
    IF tree = <<>> THEN code
    ELSE LET element == Head(tree) IN
         tree_walker_loop(Tail(tree),
                          IF element.tag = "Block"
                          THEN walk_subtree(element.body, code, 0)
                          ELSE Append(code, lower_simple(element.tag)))

tree_walker(tree) == tree_walker_loop(tree, <<>>)

-----------------------------------------------------------------------------
(* Virtual machine: the pure helpers of interpret *)

\* mem is [0; 30000]: every cell outside DOMAIN mem holds 0.
Cell(m, p) == IF p \in DOMAIN m THEN m[p] ELSE 0

\* Faulty variant: the write goes to the cell after p.
Store_next(m, p, v) ==
    IF v = 0
    THEN [q \in DOMAIN m \ {p + 1} |-> m[q]]
    ELSE [q \in DOMAIN m \cup {p + 1} |-> IF q = p + 1 THEN v ELSE m[q]]

\* mem[p] = v, keeping the map restricted to the nonzero cells
Store(m, p, v) ==
    IF v = 0
    THEN [q \in DOMAIN m \ {p} |-> m[q]]
    ELSE [q \in DOMAIN m \cup {p} |-> IF q = p THEN v ELSE m[q]]

\* A helper that may panic returns [ok, val]; ok = FALSE is the panic.
Ok(v) == [ok |-> TRUE, val |-> v]
Panics == [ok |-> FALSE, val |-> 0]

\* Faulty variants of the two jump helpers: the arms are exchanged.
positive_jump_inverted(value, position, destination) ==
    IF value = 0 THEN position ELSE destination

negative_jump_inverted(value, position, destination) ==
    IF value = 0 THEN destination ELSE position

positive_jump(value, position, destination) ==
    IF value = 0 THEN destination ELSE position

negative_jump(value, position, destination) ==
    IF value = 0 THEN position ELSE destination

\* Faulty variants of the two wrapping helpers: the wrap at the upper end is lost.
move_pointer_nowrap(current, change) ==
    LET new == current + change IN
    CASE new = -1 -> Ok(TapeLen - 1)
      [] new \in 0..TapeLen -> Ok(new)
      [] OTHER -> Panics

change_value_saturating(current, change) ==
    LET new == current + change IN
    CASE new = CellMod -> Ok(CellMod - 1)
      [] new = -1 -> Ok(CellMod - 1)
      [] new \in 0..(CellMod - 1) -> Ok(new)
      [] OTHER -> Panics

move_pointer(current, change) ==
    LET new == current + change IN
    CASE new = TapeLen -> Ok(0)
      [] new = -1 -> Ok(TapeLen - 1)
      [] new \in 0..(TapeLen - 1) -> Ok(new)
      [] OTHER -> Panics

\* Faulty variant: the arm for the wrap below 0 is missing.
change_value_no_underflow(current, change) ==
    LET new == current + change IN
    CASE new = CellMod -> Ok(0)
      [] new \in 0..(CellMod - 1) -> Ok(new)
      [] OTHER -> Panics

change_value(current, change) ==
    LET new == current + change IN
    CASE new = CellMod -> Ok(0)
      [] new = -1 -> Ok(CellMod - 1)
      [] new \in 0..(CellMod - 1) -> Ok(new)
      [] OTHER -> Panics

\* VecDeque::pop_front: an Option, here [some, val, rest]; pop_back is the
\* faulty variant that takes the newest byte
pop_back(queue) ==
    IF queue = << >> THEN [some |-> FALSE, val |-> 0, rest |-> << >>]
    ELSE [some |-> TRUE, val |-> queue[Len(queue)],
          rest |-> SubSeq(queue, 1, Len(queue) - 1)]

pop_front(queue) ==
    IF queue = << >> THEN [some |-> FALSE, val |-> 0, rest |-> << >>]
    ELSE [some |-> TRUE, val |-> Head(queue), rest |-> Tail(queue)]

\* print!("{}", value as char): the char U+0000..U+00FF written as UTF-8
print(value) ==
    IF value < AsciiLimit THEN << value >>
    ELSE << 192 + (value \div 64), 128 + (value % 64) >>

\* Faulty variant: only the first character of the line is looked at.
is_ascii_first(line) == IF line = << >> THEN TRUE ELSE line[1] < AsciiLimit

\* A line is the sequence of the code points of its characters.
is_ascii(line) == \A k \in 1..Len(line) : line[k] < AsciiLimit

\* str::as_bytes: the UTF-8 encoding (code points below 2048)
as_bytes(line) ==
    Flatten([k \in 1..Len(line) |->
        IF line[k] < AsciiLimit THEN << line[k] >>
        ELSE << 192 + (line[k] \div 64), 128 + (line[k] % 64) >>])

-----------------------------------------------------------------------------
(* Standard input: what read_line can return next.  A line ends with the   *)
(* newline (10) unless it is the last of the stream; the empty line is the *)
(* end of input, and after it every read_line returns the empty line.      *)
(* read_line failing (its result is dropped by "let _ =") also leaves      *)
(* input empty, so the empty line stands for that outcome too.             *)

Lines == { <<>>, <<10>>, <<65, 66, 10>>, <<65, 66>>, <<66, 10>>, <<65, 233, 10>> }

AtEof ==
    /\ stdin_log # <<>>
    /\ LET last == stdin_log[Len(stdin_log)] IN
       last = <<>> \/ last[Len(last)] # 10

NextLines == IF AtEof THEN { <<>> } ELSE Lines

-----------------------------------------------------------------------------
(* Reference interpreter: walks the parse tree, running each Block as      *)
(* "repeat body while the current cell is nonzero", on a tape and with the *)
(* I/O helpers of the VM.  Its state is the record ref:                    *)
(*   stack  - frames [seq, i]: the statement list being run and the index  *)
(*            of its next statement; frame 1 is the program, every other   *)
(*            frame the body of a Block being repeated                     *)
(*   mem, pointer, queue, out, status - as for the VM                      *)
(* RefStep makes one step; supplied is << >> or << line >>, the line the   *)
(* input source hands out during this step.                                *)

RefInit(tree) ==
    [stack |-> << [seq |-> tree, i |-> 0] >>, mem |-> << >>, pointer |-> 0,
     queue |-> << >>, out |-> << >>, status |-> "running"]

RefTop(r) == r.stack[Len(r.stack)]

RefAdvance(r) == [r EXCEPT !.stack[Len(r.stack)].i = @ + 1]

\* the statement about to run; tag "End" at the end of the frame's list
RefCur(r) ==
    IF r.status # "running" THEN [tag |-> "None", body |-> <<>>]
    ELSE IF RefTop(r).i < Len(RefTop(r).seq) THEN RefTop(r).seq[RefTop(r).i + 1]
    ELSE [tag |-> "End", body |-> <<>>]

RefStep(r, supplied) ==
    LET cur == RefCur(r)
        cell == Cell(r.mem, r.pointer)
    IN
    CASE cur.tag = "None" -> r
      [] cur.tag = "End" ->
            IF Len(r.stack) = 1 THEN [r EXCEPT !.status = "halted"]
            ELSE IF cell # 0
                 THEN [r EXCEPT !.stack[Len(r.stack)].i = 0]
                 ELSE RefAdvance([r EXCEPT !.stack = SubSeq(@, 1, Len(@) - 1)])
      [] cur.tag = "Block" ->
            IF cell # 0
            THEN [r EXCEPT !.stack = Append(@, [seq |-> cur.body, i |-> 0])]
            ELSE RefAdvance(r)
      [] cur.tag = "Increment" ->
            RefAdvance([r EXCEPT !.mem = Store(@, r.pointer, (cell + 1) % CellMod)])
      [] cur.tag = "Decrement" ->
            RefAdvance([r EXCEPT !.mem = Store(@, r.pointer, (cell - 1) % CellMod)])
      [] cur.tag = "MoveUp" ->
            RefAdvance([r EXCEPT !.pointer = (@ + 1) % TapeLen])
      [] cur.tag = "MoveDown" ->
            RefAdvance([r EXCEPT !.pointer = (@ - 1) % TapeLen])
      [] cur.tag = "Print" ->
            RefAdvance([r EXCEPT !.out = @ \o print(cell)])
      [] cur.tag = "Read" ->
            IF r.queue = <<>> /\ supplied = <<>> THEN r
            ELSE LET q == IF r.queue = <<>> THEN as_bytes(supplied[1]) ELSE r.queue IN
                 IF q = <<>> THEN [r EXCEPT !.status = "panicked"]
                 ELSE RefAdvance([r EXCEPT !.mem = Store(@, r.pointer, Head(q)),
                                           !.queue = Tail(q)])

-----------------------------------------------------------------------------
(* Inputs: the program texts the model runs *)

Chars == { "+", "-", ">", "<", ".", ",", "[", "]", "x" }
LoopChars == { "+", "-", ".", "[", "]" }

ShortSources == SeqsUpTo(Chars, MaxSrcLen)
LoopSources == SeqsUpTo(LoopChars, MaxLoopLen)
EchoSources == { Flatten(Rep(<< ",", "." >>, n)) : n \in 1..MaxEcho }
Sources == ShortSources \cup LoopSources \cup EchoSources

\* Long runs of short programs: "+[+]" and "-[-]" take cell 0 through every
\* value, upwards and downwards; "+[->+]" and "+[-<+]" carry a 1 round the
\* tape, taking the pointer through every index, upwards and downwards.
RunSources ==
    { << "+", "[", "+", "]" >>, << "-", "[", "-", "]" >>,
      << "+", "[", "-", ">", "+", "]" >>, << "+", "[", "-", "<", "+", "]" >> }

\* instructions executed per run under SpecRun: a lap takes 4 per tape cell,
\* 5 leaves room to pass the wrap
RunSteps == MaxLaps * 5 * TapeLen + 10

-----------------------------------------------------------------------------
(* State after main has read the file into content, before tokenize.       *)
(* interpret's locals hold the values its first lines give them.           *)

InitWith(S) ==
    /\ content \in S
    /\ tokens = << >>
    /\ parse_tree = << >>
    /\ bytecode = << >>
    /\ mem = << >>
    /\ pointer = 0
    /\ program_counter = 0
    /\ input_buffer = << >>
    /\ stdout = << >>
    /\ stdin_log = << >>
    /\ stage = "tokenize"
    /\ panic = ""
    /\ steps = 0
    /\ ref = RefInit(<< >>)

Init == InitWith(Sources)
InitRun == InitWith(RunSources)

-----------------------------------------------------------------------------
(* main: the three compile stages *)

Tokenize ==
    /\ stage = "tokenize"
    /\ tokens' = tokenize(content)
    /\ stage' = "parse_root"
    /\ UNCHANGED << content, parse_tree, bytecode, mem, pointer, program_counter,
                    input_buffer, stdout, stdin_log, panic, steps, ref >>

ParseRoot ==
    /\ stage = "parse_root"
    /\ LET r == parse_root(tokens) IN
       IF r.err = ""
       THEN /\ parse_tree' = r.elements
            /\ stage' = "tree_walker"
            /\ panic' = panic
       ELSE /\ parse_tree' = parse_tree
            /\ stage' = "panicked"
            /\ panic' = r.err
    /\ UNCHANGED << content, tokens, bytecode, mem, pointer, program_counter,
                    input_buffer, stdout, stdin_log, steps, ref >>

TreeWalker ==
    /\ stage = "tree_walker"
    /\ bytecode' = tree_walker(parse_tree)
    /\ stage' = "interpret"
    /\ ref' = RefInit(parse_tree)
    /\ UNCHANGED << content, tokens, parse_tree, mem, pointer, program_counter,
                    input_buffer, stdout, stdin_log, panic, steps >>

-----------------------------------------------------------------------------
(* interpret: one iteration of the fetch-execute loop per action.  cap     *)
(* bounds the number of instructions a run executes.                       *)

Running == stage = "interpret" /\ program_counter < Len(bytecode)
Cur == bytecode[program_counter + 1]
CurOp == IF Running THEN Cur.op ELSE "None"

ChangeValueStep(cap) ==
    /\ Running /\ Cur.op = "ChangeValue" /\ steps < cap
    /\ LET r == change_value(Cell(mem, pointer), Cur.arg) IN
       IF r.ok
       THEN /\ mem' = Store(mem, pointer, r.val)
            /\ program_counter' = program_counter + 1
            /\ steps' = steps + 1
            /\ UNCHANGED << stage, panic >>
       ELSE /\ stage' = "panicked"
            /\ panic' = "Value changed by more than one"
            /\ UNCHANGED << mem, program_counter, steps >>
    /\ ref' = RefStep(ref, << >>)
    /\ UNCHANGED << content, tokens, parse_tree, bytecode, pointer, input_buffer,
                    stdout, stdin_log >>

MovePointerStep(cap) ==
    /\ Running /\ Cur.op = "MovePointer" /\ steps < cap
    /\ LET r == move_pointer(pointer, Cur.arg) IN
       IF r.ok
       THEN /\ pointer' = r.val
            /\ program_counter' = program_counter + 1
            /\ steps' = steps + 1
            /\ UNCHANGED << stage, panic >>
       ELSE /\ stage' = "panicked"
            /\ panic' = "Pointer moved by more than one"
            /\ UNCHANGED << pointer, program_counter, steps >>
    /\ ref' = RefStep(ref, << >>)
    /\ UNCHANGED << content, tokens, parse_tree, bytecode, mem, input_buffer,
                    stdout, stdin_log >>

PrintStep(cap) ==
    /\ Running /\ Cur.op = "Print" /\ steps < cap
    /\ stdout' = stdout \o print(Cell(mem, pointer))
    /\ program_counter' = program_counter + 1
    /\ steps' = steps + 1
    /\ ref' = RefStep(ref, << >>)
    /\ UNCHANGED << content, tokens, parse_tree, bytecode, mem, pointer,
                    input_buffer, stdin_log, stage, panic >>

\* Read with bytes pending: no line is read.
ReadBuffered(cap) ==
    /\ Running /\ Cur.op = "Read" /\ steps < cap
    /\ input_buffer # << >>
    /\ mem' = Store(mem, pointer, pop_front(input_buffer).val)
    /\ input_buffer' = pop_front(input_buffer).rest
    /\ program_counter' = program_counter + 1
    /\ steps' = steps + 1
    /\ ref' = RefStep(ref, << >>)
    /\ UNCHANGED << content, tokens, parse_tree, bytecode, pointer, stdout,
                    stdin_log, stage, panic >>

\* Read with the queue empty, the iteration of read() that returns: the line
\* is ASCII, its bytes extend the queue, and pop_front().unwrap() follows.
ReadLine(cap) ==
    /\ Running /\ Cur.op = "Read" /\ steps < cap
    /\ input_buffer = << >>
    /\ Len(stdin_log) < MaxLines
    /\ \E input \in NextLines :
        /\ is_ascii(input)
        /\ stdin_log' = Append(stdin_log, input)
        /\ LET front == pop_front(input_buffer \o as_bytes(input)) IN
           IF front.some
           THEN /\ mem' = Store(mem, pointer, front.val)
                /\ input_buffer' = front.rest
                /\ program_counter' = program_counter + 1
                /\ steps' = steps + 1
                /\ UNCHANGED << stage, panic >>
           ELSE /\ stage' = "panicked"
                /\ panic' = "called Option::unwrap() on a None value"
                /\ UNCHANGED << mem, input_buffer, program_counter, steps >>
        /\ ref' = RefStep(ref, << input >>)
    /\ UNCHANGED << content, tokens, parse_tree, bytecode, pointer, stdout >>

\* Read with the queue empty, an iteration of read() that loops: the line is
\* not ASCII and is dropped.
ReadRejected(cap) ==
    /\ Running /\ Cur.op = "Read" /\ steps < cap
    /\ input_buffer = << >>
    /\ Len(stdin_log) < MaxLines
    /\ \E input \in NextLines :
        /\ ~is_ascii(input)
        /\ stdin_log' = Append(stdin_log, input)
    /\ UNCHANGED << content, tokens, parse_tree, bytecode, mem, pointer,
                    program_counter, input_buffer, stdout, stage, panic, steps, ref >>

PositiveJumpStep(cap) ==
    /\ Running /\ Cur.op = "PositiveJump" /\ steps < cap
    /\ program_counter' = positive_jump(Cell(mem, pointer), program_counter, Cur.arg) + 1
    /\ steps' = steps + 1
    /\ ref' = RefStep(ref, << >>)
    /\ UNCHANGED << content, tokens, parse_tree, bytecode, mem, pointer,
                    input_buffer, stdout, stdin_log, stage, panic >>

NegativeJumpStep(cap) ==
    /\ Running /\ Cur.op = "NegativeJump" /\ steps < cap
    /\ program_counter' = negative_jump(Cell(mem, pointer), program_counter, Cur.arg) + 1
    /\ steps' = steps + 1
    /\ ref' = RefStep(ref, << >>)
    /\ UNCHANGED << content, tokens, parse_tree, bytecode, mem, pointer,
                    input_buffer, stdout, stdin_log, stage, panic >>

\* bytecode.get(program_counter) is None: the loop ends and main returns.
Halt ==
    /\ stage = "interpret"
    /\ program_counter >= Len(bytecode)
    /\ stage' = "halted"
    /\ ref' = RefStep(ref, << >>)
    /\ UNCHANGED << content, tokens, parse_tree, bytecode, mem, pointer,
                    program_counter, input_buffer, stdout, stdin_log, panic, steps >>

-----------------------------------------------------------------------------
(* Specifications *)

Next ==
    \/ Tokenize
    \/ ParseRoot
    \/ TreeWalker
    \/ ChangeValueStep(MaxSteps)
    \/ MovePointerStep(MaxSteps)
    \/ PrintStep(MaxSteps)
    \/ ReadBuffered(MaxSteps)
    \/ ReadLine(MaxSteps)
    \/ ReadRejected(MaxSteps)
    \/ PositiveJumpStep(MaxSteps)
    \/ NegativeJumpStep(MaxSteps)
    \/ Halt

Spec == Init /\ [][Next]_vars

\* The long runs of RunSources.
NextRun ==
    \/ Tokenize
    \/ ParseRoot
    \/ TreeWalker
    \/ ChangeValueStep(RunSteps)
    \/ MovePointerStep(RunSteps)
    \/ PositiveJumpStep(RunSteps)
    \/ NegativeJumpStep(RunSteps)
    \/ Halt

SpecRun == InitRun /\ [][NextRun]_vars

-----------------------------------------------------------------------------
(* Bracket structure of a lowered instruction sequence, read off the       *)
(* opcodes alone (never the stored targets).  Indices are 0-based.         *)

Opens(code, a, b) == Cardinality({ k \in a..b : code[k + 1].op = "PositiveJump" })
Closes(code, a, b) == Cardinality({ k \in a..b : code[k + 1].op = "NegativeJump" })
Balanced(code, a, b) == Opens(code, a, b) = Closes(code, a, b)

Least(S) == CHOOSE x \in S : \A y \in S : x <= y
Greatest(S) == CHOOSE x \in S : \A y \in S : x >= y

\* index of the NegativeJump matching the PositiveJump at i; -1 if none
MatchingClose(code, i) ==
    LET js == { j \in (i + 1)..(Len(code) - 1) : Balanced(code, i, j) } IN
    IF js = {} THEN -1 ELSE Least(js)

\* index of the PositiveJump matching the NegativeJump at j; -1 if none
MatchingOpen(code, j) ==
    LET is == { i \in 0..(j - 1) : Balanced(code, i, j) } IN
    IF is = {} THEN -1 ELSE Greatest(is)

\* number of loops enclosing instruction i (a jump counts its own loop)
NestDepth(code, i) ==
    IF code[i + 1].op = "NegativeJump"
    THEN Opens(code, 0, i) - Closes(code, 0, i) + 1
    ELSE Opens(code, 0, i) - Closes(code, 0, i)

Indices(code) == 0..(Len(code) - 1)
PositiveJumps(code) == { i \in Indices(code) : code[i + 1].op = "PositiveJump" }
NegativeJumps(code) == { j \in Indices(code) : code[j + 1].op = "NegativeJump" }

Lowered == stage \in { "interpret", "halted" } \/ (stage = "panicked" /\ steps > 0)

\* a sibling loop inside a loop, directly following a loop: at i - 1 a
\* NegativeJump, at i a PositiveJump two loops deep
SiblingInsideLoop(code, i) ==
    /\ i \in PositiveJumps(code)
    /\ i >= 1
    /\ code[i].op = "NegativeJump"
    /\ NestDepth(code, i) >= 2

-----------------------------------------------------------------------------
\* C2 (as stated): in the bytecode tree_walker produces, the target stored in
\* every PositiveJump is one past the index of its matching NegativeJump.
C2_TargetOnePastClose ==
    \A i \in PositiveJumps(bytecode) :
        bytecode[i + 1].arg = MatchingClose(bytecode, i) + 1

\* C2 (amended): in the bytecode tree_walker produces, the target stored in
\* every PositiveJump is the index of its matching NegativeJump itself, at any
\* nesting depth and for sibling, consecutive and empty loops.
C2_TargetIsClose ==
    \A i \in PositiveJumps(bytecode) :
        /\ MatchingClose(bytecode, i) # -1
        /\ bytecode[i + 1].arg = MatchingClose(bytecode, i)

\* C2 witness: a lowered program with an empty loop that follows a sibling
\* loop inside an enclosing loop.
C2_Witness ==
    /\ Lowered
    /\ \E i \in PositiveJumps(bytecode) :
        /\ SiblingInsideLoop(bytecode, i)
        /\ MatchingClose(bytecode, i) = i + 1

\* C3: in the bytecode tree_walker produces, the target stored in every
\* NegativeJump is the final index of its matching PositiveJump.
C3_CloseTargetsOpen ==
    \A j \in NegativeJumps(bytecode) :
        /\ MatchingOpen(bytecode, j) # -1
        /\ bytecode[j + 1].arg = MatchingOpen(bytecode, j)

\* C3 witness: a lowered program with a loop nested in a loop that an earlier
\* sibling loop precedes, its NegativeJump targeting an index past that loop.
C3_Witness ==
    /\ Lowered
    /\ \E j \in NegativeJumps(bytecode) :
        /\ NestDepth(bytecode, j) >= 2
        /\ \E c \in NegativeJumps(bytecode) : c < bytecode[j + 1].arg

\* C4: every jump target stored in the lowered bytecode is a valid index of
\* the instruction sequence.
C4_TargetsInBounds ==
    \A i \in PositiveJumps(bytecode) \cup NegativeJumps(bytecode) :
        bytecode[i + 1].arg \in Indices(bytecode)

\* C4 witness: a lowered program whose last construct is a loop nested in a
\* loop.
C4_Witness ==
    /\ Lowered
    /\ Len(bytecode) >= 4
    /\ bytecode[Len(bytecode)].op = "NegativeJump"
    /\ bytecode[Len(bytecode) - 1].op = "NegativeJump"

-----------------------------------------------------------------------------
(* The run, as the claims speak of it *)

ParsePanics == { "unexpected ]", "missing ]" }

\* interpret has been entered
Executing == stage \in { "interpret", "halted" } \/ (stage = "panicked" /\ panic \notin ParsePanics)

\* C1: the VM running the bytecode of tree_walker and the reference
\* interpreter running the parse tree, given the same lines, agree at every
\* step on the output written, the input consumed (the lines are shared, the
\* queues equal), the tape and pointer, and on halting and aborting.
C1_Equivalent ==
    Executing =>
        /\ stdout = ref.out
        /\ input_buffer = ref.queue
        /\ mem = ref.mem
        /\ pointer = ref.pointer
        /\ (stage = "halted") = (ref.status = "halted")
        /\ (stage = "panicked") = (ref.status = "panicked")

\* C1 witness: a program with a Print inside a loop nested in a loop has run
\* more instructions than it has, so a jump back was taken, and has written
\* output twice.
C1_Witness ==
    /\ Executing
    /\ steps > Len(bytecode)
    /\ Len(stdout) >= 2
    /\ \E i \in Indices(bytecode) :
        bytecode[i + 1].op = "Print" /\ NestDepth(bytecode, i) >= 2

-----------------------------------------------------------------------------
\* The outcome of a left-to-right scan of the tokens that counts open blocks:
\* the first LoopClose met with none open, else a block left open at the end.
RECURSIVE ScanOutcome(_, _)
ScanOutcome(toks, open) ==
    IF toks = << >> THEN (IF open > 0 THEN "missing ]" ELSE "")
    ELSE CASE Head(toks) = "LoopClose" ->
                IF open = 0 THEN "unexpected ]" ELSE ScanOutcome(Tail(toks), open - 1)
           [] Head(toks) = "LoopOpen" -> ScanOutcome(Tail(toks), open + 1)
           [] OTHER -> ScanOutcome(Tail(toks), open)

\* C5: once parse_root has run, it has panicked with "unexpected ]" exactly
\* when the scan first meets a LoopClose with no block open, with "missing ]"
\* exactly when the tokens end with a block open, and has succeeded otherwise;
\* on failure no parse tree exists and nothing is lowered.
C5_ParseOutcome ==
    stage \notin { "tokenize", "parse_root" } =>
        LET outcome == ScanOutcome(tokens, 0) IN
        IF outcome = ""
        THEN panic \notin ParsePanics
        ELSE /\ stage = "panicked"
             /\ panic = outcome
             /\ parse_tree = << >>
             /\ bytecode = << >>

\* C5 witness: parsing failed with "missing ]" on tokens in which an inner
\* block was closed before the end.
C5_Witness ==
    /\ stage = "panicked"
    /\ panic = "missing ]"
    /\ \E k \in 1..Len(tokens) : tokens[k] = "LoopClose"

\* C6: for a program with unbalanced brackets nothing is ever executed: no
\* instruction runs, no output byte is written, no line is read and the tape,
\* pointer and program counter keep their initial values.
C6_NoExecutionWhenUnbalanced ==
    ScanOutcome(tokenize(content), 0) # "" =>
        /\ stage \in { "tokenize", "parse_root", "panicked" }
        /\ steps = 0
        /\ stdout = << >>
        /\ stdin_log = << >>
        /\ mem = << >>
        /\ pointer = 0
        /\ program_counter = 0
        /\ bytecode = << >>

\* C6 witness: the run aborted on a stray LoopClose that a Print and a Read
\* precede in the source.
C6_Witness ==
    /\ stage = "panicked"
    /\ panic = "unexpected ]"
    /\ Len(tokens) >= 3
    /\ tokens[1] = "Print"
    /\ tokens[2] = "Read"

-----------------------------------------------------------------------------
\* C7: a ChangeValue step with delta +1 or -1 on a cell holding v completes
\* and leaves the cell at (v + delta) mod 256, the pointer unmoved.
C7_ChangeValueWraps ==
    [][ (CurOp = "ChangeValue" /\ Cur.arg \in { 1, -1 }) =>
            /\ stage' = "interpret"
            /\ pointer' = pointer
            /\ Cell(mem', pointer) = (Cell(mem, pointer) + Cur.arg) % CellMod ]_vars

\* C7 witness: cell 0 has been taken through all 256 values and the run has
\* halted with it back at 0.
C7_Witness ==
    /\ stage = "halted"
    /\ steps > CellMod
    /\ Cell(mem, 0) = 0

\* C8: a MovePointer step with delta +1 or -1 from pointer p completes and
\* leaves the pointer at (p + delta) mod 30000; in every state the pointer is
\* an index of the tape.
C8_MovePointerWraps ==
    /\ [](pointer \in 0..(TapeLen - 1))
    /\ [][ (CurOp = "MovePointer" /\ Cur.arg \in { 1, -1 }) =>
            /\ stage' = "interpret"
            /\ pointer' = (pointer + Cur.arg) % TapeLen ]_vars

\* C8 witness: the pointer is back at cell 0 after a whole trip round the tape.
C8_Witness ==
    /\ stage = "interpret"
    /\ pointer = 0
    /\ steps > TapeLen

-----------------------------------------------------------------------------
(* The echo scenario: ",." repeated, the first line read being "AB" *)

ABLines == { << 65, 66, 10 >>, << 65, 66 >> }

EchoRun == content \in EchoSources /\ stdin_log # << >> /\ stdin_log[1] \in ABLines

Min(a, b) == IF a <= b THEN a ELSE b

\* C9 (as stated): the echo program, whatever its number of repetitions,
\* run on the line "AB" ends with exactly "AB" written.
C9_OutputIsAB ==
    (EchoRun /\ stage = "halted") => stdout = << 65, 66 >>

\* C9 (amended): in a run of ",." repeated N times whose first line is "AB"
\* (with or without its newline), after s instructions s / 2 bytes have been
\* written, so each byte is written before the next Input runs; as far as the
\* line reaches, the k-th Input stores its k-th byte and the output is its
\* first bytes; with N = 2 the run halts with exactly "AB" written.
C9_EchoFirstBytes ==
    EchoRun =>
        LET line == as_bytes(stdin_log[1])
            n == Min(steps \div 2, Len(line))
            k == (steps + 1) \div 2
        IN  /\ Len(stdout) = steps \div 2
            /\ SubSeq(stdout, 1, n) = SubSeq(line, 1, n)
            /\ (steps % 2 = 1 /\ k <= Len(line)) => Cell(mem, pointer) = line[k]
            /\ (Len(content) = 4 /\ stage = "halted") => stdout = << 65, 66 >>

\* C9 witness: ",.,." has halted on the line "AB" with two bytes written.
C9_Witness ==
    /\ EchoRun
    /\ Len(content) = 4
    /\ stage = "halted"
    /\ Len(stdout) = 2

-----------------------------------------------------------------------------
(* The bytes of the accepted (ASCII) lines read so far, in order *)

AcceptedBytes(log) ==
    Flatten([k \in 1..Len(log) |-> IF is_ascii(log[k]) THEN as_bytes(log[k]) ELSE << >>])

LineAccepted == stdin_log' # stdin_log /\ is_ascii(stdin_log'[Len(stdin_log')])

\* C10: an Input with bytes pending reads no line; an Input with the queue
\* empty reads one line; whenever the Input is served (bytes were pending, or
\* the line read is accepted) it completes, storing the next byte of the
\* accepted lines not yet stored and leaving the bytes after it in the queue.
C10_InputFifo ==
    [][ CurOp = "Read" =>
            LET before == AcceptedBytes(stdin_log)
                after == AcceptedBytes(stdin_log')
                k == Len(before) - Len(input_buffer)
            IN  /\ input_buffer # << >> => stdin_log' = stdin_log
                /\ input_buffer = << >> =>
                       SubSeq(stdin_log', 1, Len(stdin_log)) = stdin_log
                       /\ Len(stdin_log') = Len(stdin_log) + 1
                /\ (input_buffer # << >> \/ LineAccepted) =>
                       /\ stage' = "interpret"
                       /\ program_counter' = program_counter + 1
                       /\ Cell(mem', pointer) = after[k + 1]
                       /\ input_buffer' = SubSeq(after, k + 2, Len(after)) ]_vars

\* The part of C10 that holds: every Input that completes stores the next
\* byte of the accepted lines, in order, none skipped or duplicated.
InputOrderWhenCompleted ==
    [][ (CurOp = "Read" /\ steps' = steps + 1) =>
            LET after == AcceptedBytes(stdin_log')
                k == Len(AcceptedBytes(stdin_log)) - Len(input_buffer)
            IN  /\ input_buffer # << >> => stdin_log' = stdin_log
                /\ Cell(mem', pointer) = after[k + 1]
                /\ input_buffer' = SubSeq(after, k + 2, Len(after)) ]_vars

-----------------------------------------------------------------------------
(* Lines with a character of more than one byte, told from the code points *)
(* alone, and the bytes of all the other lines read so far                 *)

HasWideChar(line) == \E k \in 1..Len(line) : line[k] >= AsciiLimit

NarrowBytes(log) ==
    Flatten([k \in 1..Len(log) |-> IF HasWideChar(log[k]) THEN << >> ELSE log[k]])

IsSuffix(s, t) == Len(s) <= Len(t) /\ s = SubSeq(t, Len(t) - Len(s) + 1, Len(t))

\* C11: a step of an Input in which the line read has a non-ASCII character
\* changes neither pc, pointer, tape, queue nor output and leaves the VM at
\* the same Input, which reads again; the queue only ever holds, and an Input
\* only ever stores, bytes of lines without such a character.
C11_RejectedLineDiscarded ==
    /\ [](IsSuffix(input_buffer, NarrowBytes(stdin_log)))
    /\ [][ (stdin_log' # stdin_log /\ HasWideChar(stdin_log'[Len(stdin_log')])) =>
              /\ CurOp = "Read"
              /\ input_buffer = << >>
              /\ UNCHANGED << mem, pointer, program_counter, input_buffer, stdout,
                              stage, panic, steps >> ]_vars
    /\ [][ (CurOp = "Read" /\ steps' = steps + 1) =>
              LET kept == NarrowBytes(stdin_log')
                  k == Len(kept) - Len(input_buffer')
              IN  k >= 1 /\ Cell(mem', pointer) = kept[k] ]_vars

\* C11 witness: an Input has stored the first byte of a line read after a
\* line with a non-ASCII character was dropped.
C11_Witness ==
    /\ stage = "interpret"
    /\ steps = 1
    /\ Len(stdin_log) = 2
    /\ HasWideChar(stdin_log[1])
    /\ stdin_log[2] # << >>
    /\ Cell(mem, pointer) = stdin_log[2][1]
    /\ input_buffer = Tail(stdin_log[2])

-----------------------------------------------------------------------------
\* C12 (as stated): every executed Output appends exactly one byte, equal to
\* the value of the current cell, for every value from 0 to 255, so the
\* output is the sequence of the cell values at the Outputs.
C12_OutputOneRawByte ==
    [][ (CurOp = "Print" /\ steps' = steps + 1) =>
            stdout' = Append(stdout, Cell(mem, pointer)) ]_vars

-----------------------------------------------------------------------------
(* The eight operator characters and their tokens, as a table *)

OperatorToken ==
    [c \in {"+", "-", ">", "<", ".", ",", "[", "]"} |->
        CASE c = "+" -> "Increment"
          [] c = "-" -> "Decrement"
          [] c = ">" -> "MoveUp"
          [] c = "<" -> "MoveDown"
          [] c = "." -> "Print"
          [] c = "," -> "Read"
          [] c = "[" -> "LoopOpen"
          [] c = "]" -> "LoopClose"]

IsOperator(c) == c \in DOMAIN OperatorToken

OperatorsOf(string) == SelectSeq(string, IsOperator)

\* C13: the tokens are the operator characters of the source, in order and
\* one token for each, every other character contributing nothing; the
\* lexer accepts every source (it raises no error of its own).
C13_TokensAreOperators ==
    /\ stage = "tokenize" => (tokens = << >> /\ panic = "")
    /\ stage # "tokenize" =>
          LET ops == OperatorsOf(content) IN
          /\ Len(tokens) = Len(ops)
          /\ \A k \in 1..Len(ops) : tokens[k] = OperatorToken[ops[k]]
    /\ stage = "parse_root" => panic = ""

\* C13 witness: a source with other characters between its operators has
\* been tokenized.
C13_Witness ==
    /\ stage = "parse_root"
    /\ Len(content) = 4
    /\ content[1] = "x" /\ content[3] = "x" /\ content[2] = "<" /\ content[4] = ","
    /\ tokens = << "MoveDown", "Read" >>

-----------------------------------------------------------------------------
\* C14: a PositiveJump(t) executed at pc = i leaves pc = t + 1 when the
\* current cell is 0 and i + 1 otherwise; a NegativeJump(t) leaves pc = t + 1
\* when the cell is not 0 and i + 1 otherwise.  With the targets of
\* tree_walker, a PositiveJump on a zero cell continues right after its
\* matching NegativeJump (at the end of the bytecode if that was the last
\* instruction), so no instruction of the body is executed.
C14_JumpSemantics ==
    [][ (CurOp \in { "PositiveJump", "NegativeJump" } /\ steps' = steps + 1) =>
            LET i == program_counter
                t == Cur.arg
                v == Cell(mem, pointer)
            IN  /\ CurOp = "PositiveJump" =>
                      program_counter' = (IF v = 0 THEN t + 1 ELSE i + 1)
                /\ CurOp = "NegativeJump" =>
                      program_counter' = (IF v # 0 THEN t + 1 ELSE i + 1)
                /\ (CurOp = "PositiveJump" /\ v = 0) =>
                      /\ MatchingClose(bytecode, i) # -1
                      /\ program_counter' = MatchingClose(bytecode, i) + 1
                      /\ program_counter' <= Len(bytecode) ]_vars

\* C14 witness: the first instruction, a PositiveJump on a zero cell, has
\* skipped a body of at least one instruction and the VM goes on after it.
C14_Witness ==
    /\ stage = "interpret"
    /\ steps = 1
    /\ bytecode[1].op = "PositiveJump"
    /\ program_counter = MatchingClose(bytecode, 0) + 1
    /\ program_counter >= 3
    /\ Running

\* C15 (as stated): after a NegativeJump executed on a nonzero cell the next
\* instruction executed is the matching PositiveJump.
C15_BackToGuard ==
    [][ (CurOp = "NegativeJump" /\ Cell(mem, pointer) # 0 /\ steps' = steps + 1) =>
            program_counter' = MatchingOpen(bytecode, program_counter) ]_vars

\* C15 (amended): after a NegativeJump executed on a nonzero cell the next
\* instruction executed is the one right after the matching PositiveJump:
\* the first instruction of the body, the NegativeJump itself when the body
\* is empty.  The PositiveJump is not executed again.
C15_BackToBodyStart ==
    [][ (CurOp = "NegativeJump" /\ Cell(mem, pointer) # 0 /\ steps' = steps + 1) =>
            /\ MatchingOpen(bytecode, program_counter) # -1
            /\ program_counter' = MatchingOpen(bytecode, program_counter) + 1
            /\ program_counter' <= program_counter ]_vars

\* C15 witness: a loop with a body is being repeated: some instruction has
\* run twice and the VM stands at the first instruction of a body.
C15_Witness ==
    /\ Running
    /\ steps > Len(bytecode)
    /\ program_counter >= 1
    /\ bytecode[program_counter].op = "PositiveJump"
    /\ Cur.op # "NegativeJump"
    /\ Cell(mem, pointer) # 0

-----------------------------------------------------------------------------
InternalPanics == { "Value changed by more than one", "Pointer moved by more than one" }

\* C16: in the bytecode of every accepted program each ChangeValue and each
\* MovePointer has a delta of +1 or -1, and the two internal errors of
\* change_value and move_pointer never happen.
C16_UnitDeltas ==
    /\ panic \notin InternalPanics
    /\ Lowered =>
          \A i \in Indices(bytecode) :
              bytecode[i + 1].op \in { "ChangeValue", "MovePointer" } =>
                  bytecode[i + 1].arg \in { 1, -1 }

\* C16 witness: a program has moved the pointer below cell 0 and decremented
\* the zero cell there, the two steps nearest to the internal errors, and
\* has halted.
C16_Witness ==
    /\ stage = "halted"
    /\ steps = 2
    /\ pointer = TapeLen - 1
    /\ Cell(mem, pointer) = CellMod - 1

-----------------------------------------------------------------------------
LoopFree == PositiveJumps(bytecode) = {} /\ NegativeJumps(bytecode) = {}

NoOperators == \A k \in 1..Len(content) : ~IsOperator(content[k])

\* C17: pc stays within 0..length; the VM halts when pc = length and only
\* then; a program without loops executes its instructions once each in
\* order (pc counts the steps made) and has made as many steps as it has
\* instructions when it halts; a source without operator characters gives
\* the empty bytecode, which halts at once, nothing written, no line read.
C17_HaltsAtEnd ==
    /\ [](Executing => program_counter \in 0..Len(bytecode))
    /\ [](stage = "halted" => program_counter = Len(bytecode))
    /\ []((stage = "interpret" /\ program_counter = Len(bytecode)) => ENABLED Halt)
    /\ [][ (stage = "interpret" /\ program_counter = Len(bytecode)) =>
               stage' = "halted" ]_vars
    /\ [][ (stage' = "halted" /\ stage # "halted") =>
               (stage = "interpret" /\ program_counter = Len(bytecode)) ]_vars
    /\ []((Executing /\ LoopFree) =>
               /\ program_counter = steps
               /\ stage = "halted" => steps = Len(bytecode))
    /\ []((Executing /\ NoOperators) =>
               /\ bytecode = << >>
               /\ stage \in { "interpret", "halted" }
               /\ steps = 0 /\ stdout = << >> /\ stdin_log = << >> /\ input_buffer = << >>)

\* C17 witness: a program of four instructions without loops, one of them an
\* Input and one an Output, has halted after four steps.
C17_Witness ==
    /\ stage = "halted"
    /\ LoopFree
    /\ Len(bytecode) = 4
    /\ steps = 4
    /\ stdin_log # << >>
    /\ stdout # << >>

-----------------------------------------------------------------------------
\* every cell but the one at the pointer keeps its value
OtherCellsSame ==
    \A q \in (DOMAIN mem \cup DOMAIN mem') \ { pointer } : Cell(mem', q) = Cell(mem, q)

\* C18: what each instruction leaves alone.  A jump changes only pc; a
\* ChangeValue only the cell at the pointer; a MovePointer only the pointer;
\* an Output only the output; an Input only the cell at the pointer and the
\* input queue.  Apart from jumps every executed instruction advances pc by
\* one, and no step changes the bytecode.
C18_Frames ==
    [][ Running =>
          /\ bytecode' = bytecode
          /\ CurOp \in { "PositiveJump", "NegativeJump" } =>
                UNCHANGED << mem, pointer, input_buffer, stdout >>
          /\ CurOp = "ChangeValue" =>
                OtherCellsSame /\ UNCHANGED << pointer, input_buffer, stdout >>
          /\ CurOp = "MovePointer" =>
                UNCHANGED << mem, input_buffer, stdout >>
          /\ CurOp = "Print" =>
                UNCHANGED << mem, pointer, input_buffer >>
          /\ CurOp = "Read" =>
                OtherCellsSame /\ UNCHANGED << pointer, stdout >>
          /\ (steps' = steps + 1 /\ CurOp \notin { "PositiveJump", "NegativeJump" }) =>
                program_counter' = program_counter + 1 ]_vars

\* C18 witness: an Input, a MovePointer, a ChangeValue and an Output have run
\* with a nonzero cell away from the pointer, bytes written and bytes pending.
C18_Witness ==
    /\ stage = "halted"
    /\ steps = 4
    /\ pointer = 1
    /\ Cell(mem, 0) = 65 /\ Cell(mem, 1) = 1
    /\ stdout = << 1 >>
    /\ input_buffer = << 66, 10 >>

-----------------------------------------------------------------------------
\* C19 (as stated): an Input executed with the queue empty completes for
\* every ASCII line read, the zero-length line of the end of input
\* included: one byte is stored, pc advances, and the VM does not abort.
C19_InputCompletes ==
    [][ ( /\ CurOp = "Read"
          /\ input_buffer = << >>
          /\ stdin_log' # stdin_log
          /\ ~HasWideChar(stdin_log'[Len(stdin_log')]) ) =>
            /\ stage' = "interpret"
            /\ panic' = ""
            /\ program_counter' = program_counter + 1
            /\ Len(input_buffer') = Len(stdin_log'[Len(stdin_log')]) - 1 ]_vars

-----------------------------------------------------------------------------
(* The token sequence a parse tree stands for, and the instruction kind of  *)
(* each token                                                              *)

RECURSIVE Serialise(_)
Serialise(elements) ==
    IF elements = << >> THEN << >>
    ELSE LET e == Head(elements) IN
         (IF e.tag = "Block"
          THEN << "LoopOpen" >> \o Serialise(e.body) \o << "LoopClose" >>
          ELSE << e.tag >>) \o Serialise(Tail(elements))

TokenOp ==
    [t \in { "Increment", "Decrement", "MoveUp", "MoveDown", "Print", "Read",
             "LoopOpen", "LoopClose" } |->
        CASE t \in { "Increment", "Decrement" } -> "ChangeValue"
          [] t \in { "MoveUp", "MoveDown" } -> "MovePointer"
          [] t = "Print" -> "Print"
          [] t = "Read" -> "Read"
          [] t = "LoopOpen" -> "PositiveJump"
          [] t = "LoopClose" -> "NegativeJump"]

TokenDelta(t) == IF t \in { "Increment", "MoveUp" } THEN 1 ELSE -1

\* the tokens strictly between positions a and b of toks
Between(toks, a, b) == SubSeq(toks, a + 1, b - 1)

\* a Block and the tokens it was parsed from
RECURSIVE BlocksMatch(_, _)
BlocksMatch(elements, toks) ==
    IF elements = << >> THEN toks = << >>
    ELSE LET e == Head(elements)
             n == Len(Serialise(<< e >>))
         IN  /\ n <= Len(toks)
             /\ e.tag = "Block" =>
                   /\ toks[1] = "LoopOpen" /\ toks[n] = "LoopClose"
                   /\ ScanOutcome(Between(toks, 1, n), 0) = ""
                   /\ BlocksMatch(e.body, Between(toks, 1, n))
             /\ e.tag # "Block" => toks[1] = e.tag
             /\ BlocksMatch(Tail(elements), SubSeq(toks, n + 1, Len(toks)))

\* C20: for every bracket-balanced token sequence parse_root succeeds and
\* the tree written back as tokens is the token sequence; the children of
\* each Block are the tokens between a LoopOpen and its matching LoopClose;
\* the bytecode has one instruction for each token, at the same index, a
\* PositiveJump for LoopOpen and a NegativeJump for LoopClose.
C20_ParserRoundTrip ==
    (stage \notin { "tokenize", "parse_root" } /\ ScanOutcome(tokens, 0) = "") =>
        /\ panic \notin ParsePanics
        /\ Serialise(parse_tree) = tokens
        /\ BlocksMatch(parse_tree, tokens)
        /\ Lowered =>
              /\ Len(bytecode) = Len(tokens)
              /\ \A k \in 1..Len(tokens) :
                    /\ bytecode[k].op = TokenOp[tokens[k]]
                    /\ bytecode[k].op \in { "ChangeValue", "MovePointer" } =>
                          bytecode[k].arg = TokenDelta(tokens[k])

\* C20 witness: a program of six tokens with a loop that holds a nested loop
\* and a simple statement has been parsed and lowered.
C20_Witness ==
    /\ Lowered
    /\ Len(tokens) = 6
    /\ \E k \in 1..Len(parse_tree) :
          /\ parse_tree[k].tag = "Block"
          /\ Len(parse_tree[k].body) >= 2
          /\ \E c \in 1..Len(parse_tree[k].body) : parse_tree[k].body[c].tag = "Block"
          /\ \E c \in 1..Len(parse_tree[k].body) : parse_tree[k].body[c].tag # "Block"

====
